---- MODULE Spec2Model ----
(***************************************************************************)
(* Model of src/App.tsx: the face-detection component of                   *)
(* rn-tfjs-face-detection.                                                 *)
(*                                                                         *)
(* The component initialises (camera permission, tf backend, blazeface     *)
(* model), renders a TensorCamera with a Canvas on top once initSetting is *)
(* complete, and every onReady call starts a self-rescheduling loop:       *)
(*   images.next() -> fn_estimateBlazeFace -> setTimeout -> rAF -> loop.   *)
(*                                                                         *)
(* Pending asynchronous continuations (an estimateFaces promise, a delay   *)
(* timer, a requestAnimationFrame callback) are the elements of `tasks`.   *)
(* Every action is one JavaScript macrotask together with the microtasks   *)
(* it triggers.                                                            *)
(***************************************************************************)
EXTENDS Integers, Sequences, FiniteSets, TLC

\* ---------------------------------------------------------------- bounds
MaxLoops == 2      \* onReady invocations explored
MaxCycles == 2     \* images.next() calls explored, over all loops
MaxFaces == 2      \* longest prediction list returned by estimateFaces

Loops == 1..MaxLoops

\* ------------------------------------------------------ program constants
\* const CAMERA_SIZE = { height: 480, width: 320 }
CAMERA_SIZE == [height |-> 480, width |-> 320]

\* ctx.lineWidth = 6
lineWidth == 6

\* <Canvas style={styles.canvas} ref={canvasRef} /> is given no size; until
\* the program assigns one the surface has the canvas default 300 x 150.
DefaultCanvas == [height |-> 150, width |-> 300]

\* ------------------------------------------------------------ input sets
\* blazeface.NormalizedFace values the model may report.
Faces ==
  { [topLeft |-> <<10, 10>>, bottomRight |-> <<50, 60>>],
    [topLeft |-> <<100, 200>>, bottomRight |-> <<180, 300>>] }

RECURSIVE SeqsUpTo(_, _)
SeqsUpTo(S, n) ==
  IF n = 0 THEN { <<>> }
  ELSE LET shorter == SeqsUpTo(S, n - 1)
       IN  shorter \cup { Append(s, x) : s \in { q \in shorter : Len(q) = n - 1 }, x \in S }

\* Results estimateFaces can resolve with.
Predictions == SeqsUpTo(Faces, MaxFaces)

\* images.next().value: a tensor, or undefined when the iterator is done.
TensorValues == { "tensor", "undefined" }

\* Camera.requestCameraPermissionsAsync() status values.
PermissionStatus == { "granted", "denied", "undetermined" }

VARIABLES
  appMounted,     \* the App component is mounted
  pcInit,         \* position of fn_initSetting
  status,         \* status the permission request resolved with, or "none"
  initCalls,      \* external calls made by fn_initSetting, in order
  initOk,         \* the calls of initCalls that have succeeded, in order
  initSetting,    \* React state [isTfReady, blazefaceModel]
  initError,      \* reason fn_initSetting rejected with, or "none"
  startScopes,    \* tf.engine().startScope() calls
  endScopes,      \* tf.engine().endScope() calls
  started,        \* number of fn_onReadyTensorCamera calls so far
  cycles,         \* cycles[l]: images.next() calls made by loop l
  tasks,          \* pending continuations
  disposeCalls,   \* disposeCalls[l]: dispose() calls on the tensor of loop l's latest cycle
  outcome,        \* outcome[l]: how fn_estimateBlazeFace of loop l's latest cycle went
  consecFails,    \* consecFails[l]: current run of rejected cycles of loop l
  canvas,         \* the overlay surface behind canvasRef; canvas.ops are the
                  \* calls made on it by the step just taken
  lastRender,     \* the estimateFaces resolution handled by the step just taken
  uncaught        \* loops whose timer callback threw

vars == << appMounted, pcInit, status, initCalls, initOk, initSetting, initError, startScopes,
           endScopes, started, cycles, tasks, disposeCalls, outcome,
           consecFails, canvas, lastRender, uncaught >>

initVars == << pcInit, status, initCalls, initOk, initSetting, initError,
              startScopes >>
loopVars == << started, cycles, tasks, disposeCalls, outcome, consecFails,
               uncaught, endScopes >>

\* ------------------------------------------------------------- rendering
\* A render that shows the camera whatever initSetting holds.
CameraRendered_always == appMounted

\* JSX: initSetting.isTfReady && initSetting.blazefaceModel && ( <TensorCamera/> <Canvas/> )
CameraRendered ==
  appMounted /\ initSetting.isTfReady /\ initSetting.blazefaceModel # "null"

\* canvasRef.current: the Canvas while it is mounted, null otherwise.
canvasRefCurrent == CameraRendered

\* ------------------------------------------------- the drawing surface
\* One call on the canvas or its 2d context, with the surface size at the
\* time of the call.
Op(cv, name, args) ==
  [op |-> name, args |-> args, cw |-> cv.width, ch |-> cv.height]

\* canvas.height = h : assigning a dimension resets the surface contents.
setHeight(cv, h) ==
  [cv EXCEPT !.height = h, !.surface = {},
             !.ops = Append(cv.ops, Op(cv, "height", <<h>>))]

\* canvas.width = w
setWidth(cv, w) ==
  [cv EXCEPT !.width = w, !.surface = {},
             !.ops = Append(cv.ops, Op(cv, "width", <<w>>))]

\* ctx.strokeRect(x, y, w, h): the outline stays on the surface.
strokeRect(cv, x, y, w, h) ==
  [cv EXCEPT !.surface = cv.surface \cup { <<x, y, w, h>> },
             !.ops = Append(cv.ops, Op(cv, "strokeRect", <<x, y, w, h>>))]

Min(a, b) == IF a < b THEN a ELSE b
Max(a, b) == IF a > b THEN a ELSE b

\* The visible part of the outline r (stroked lineWidth wide, clipped to the
\* surface) lies inside the region (x, y, w, h).
Erases(cv, r, x, y, w, h) ==
  LET half == lineWidth \div 2
      left == Max(r[1] - half, 0)
      top == Max(r[2] - half, 0)
      right == Min(r[1] + r[3] + half, cv.width)
      bottom == Min(r[2] + r[4] + half, cv.height)
  IN  x <= left /\ y <= top /\ right <= x + w /\ bottom <= y + h

\* ctx.clearRect(x, y, w, h)
clearRect(cv, x, y, w, h) ==
  [cv EXCEPT !.surface = { r \in cv.surface : ~Erases(cv, r, x, y, w, h) },
             !.ops = Append(cv.ops, Op(cv, "clearRect", <<x, y, w, h>>))]

\* The loop body with bottomRight taken as the extent.
drawOne_noSubtract(cv, p) ==
  LET start == p.topLeft
      end == p.bottomRight
      sized == setWidth(setHeight(cv, CAMERA_SIZE.height), CAMERA_SIZE.width)
  IN  strokeRect(sized, start[1], start[2], end[1], end[2])

\* Body of the for loop of fn_drawRect for predictions[i].
drawOne(cv, p) ==
  LET start == p.topLeft
      end == p.bottomRight
      size == << end[1] - start[1], end[2] - start[2] >>
      sized == setWidth(setHeight(cv, CAMERA_SIZE.height), CAMERA_SIZE.width)
  IN  strokeRect(sized, start[1], start[2], size[1], size[2])

RECURSIVE drawFrom(_, _, _)
drawFrom(cv, predictions, i) ==
  IF i > Len(predictions) THEN cv
  ELSE drawFrom(drawOne(cv, predictions[i]), predictions, i + 1)

\* fn_drawRect without its `if (canvas)` guard.
fn_drawRect_noGuard(cv, mounted, predictions) == drawFrom(cv, predictions, 1)

\* fn_drawRect(predictions), with `mounted` the value of canvasRef.current.
fn_drawRect(cv, mounted, predictions) ==
  IF mounted THEN drawFrom(cv, predictions, 1) ELSE cv

\* The handler without its else branch: an empty list is drawn, not cleared.
onPredictions_noClear(cv, mounted, predictions) ==
  fn_drawRect(cv, mounted, predictions)

\* The .then handler of estimateFaces in fn_estimateBlazeFace.
onPredictions(cv, mounted, predictions) ==
  IF Len(predictions) > 0
    THEN fn_drawRect(cv, mounted, predictions)
    ELSE IF mounted
           THEN clearRect(cv, 0, 0, CAMERA_SIZE.width, CAMERA_SIZE.height)
           ELSE cv

\* --------------------------------------------------------- initial state
\* useState<LoadModel>({ isTfReady: false, blazefaceModel: null })
InitialSetting == [isTfReady |-> FALSE, blazefaceModel |-> "null"]

NoRender ==
  [handled |-> FALSE, predictions |-> <<>>, mounted |-> FALSE, isEstimate |-> FALSE]

\* A step that runs no estimateFaces handler makes no call on the canvas.
NoOverlay ==
  /\ canvas' = [canvas EXCEPT !.ops = <<>>]
  /\ lastRender' = NoRender

Init ==
  /\ appMounted = TRUE
  /\ pcInit = "effect"
  /\ status = "none"
  /\ initCalls = <<>>
  /\ initOk = <<>>
  /\ initSetting = InitialSetting
  /\ initError = "none"
  /\ startScopes = 0
  /\ endScopes = 0
  /\ started = 0
  /\ cycles = [l \in Loops |-> 0]
  /\ tasks = {}
  /\ disposeCalls = [l \in Loops |-> 0]
  /\ outcome = [l \in Loops |-> "none"]
  /\ consecFails = [l \in Loops |-> 0]
  /\ canvas = [height |-> DefaultCanvas.height, width |-> DefaultCanvas.width,
               surface |-> {}, ops |-> <<>>]
  /\ lastRender = NoRender
  /\ uncaught = {}

\* ------------------------------------------------------- fn_initSetting
\* setInitSetting(v): React drops a state update of an unmounted component.
setInitSetting(v) ==
  initSetting' = IF appMounted THEN v ELSE initSetting

\* useEffect(() => { await fn_initSetting() }, []): runs up to the await on
\* Camera.requestCameraPermissionsAsync().
EffectRun ==
  /\ pcInit = "effect"
  /\ appMounted
  /\ pcInit' = "permission"
  /\ initCalls' = Append(initCalls, "requestCameraPermissionsAsync")
  /\ UNCHANGED << appMounted, status, initOk, initSetting, initError,
                  startScopes >>
  /\ UNCHANGED loopVars
  /\ NoOverlay

\* The permission check that logs and returns instead of throwing.
PermissionResult_noThrow(s) ==
  /\ pcInit = "permission"
  /\ status' = s
  /\ pcInit' = "backend"
  /\ initCalls' = Append(initCalls, "setBackend")
  /\ initOk' = Append(initOk, "requestCameraPermissionsAsync")
  /\ UNCHANGED << appMounted, initSetting, initError, startScopes >>
  /\ UNCHANGED loopVars
  /\ NoOverlay

\* The permission request resolves with status s.
PermissionResult(s) ==
  /\ pcInit = "permission"
  /\ status' = s
  /\ IF s # "granted"
       THEN \* throw Error: fn_initSetting rejects
            /\ pcInit' = "rejected"
            /\ initError' = "permission"
            /\ UNCHANGED << initCalls, initOk >>
       ELSE \* await tf.setBackend('rn-webgl')
            /\ pcInit' = "backend"
            /\ initCalls' = Append(initCalls, "setBackend")
            /\ initOk' = Append(initOk, "requestCameraPermissionsAsync")
            /\ UNCHANGED initError
  /\ UNCHANGED << appMounted, initSetting, startScopes >>
  /\ UNCHANGED loopVars
  /\ NoOverlay

\* tf.setBackend settles: resolved (ok) or rejected.
BackendResult(ok) ==
  /\ pcInit = "backend"
  /\ IF ok
       THEN \* _isTensorReady = true; tf.engine().startScope(); then
            \* await blazeface.load()
            /\ startScopes' = startScopes + 1
            /\ pcInit' = "model"
            /\ initCalls' = Append(initCalls, "load")
            /\ initOk' = Append(initOk, "setBackend")
            /\ UNCHANGED initError
       ELSE \* .catch: throw Error
            /\ pcInit' = "rejected"
            /\ initError' = "backend"
            /\ UNCHANGED << startScopes, initCalls, initOk >>
  /\ UNCHANGED << appMounted, status, initSetting >>
  /\ UNCHANGED loopVars
  /\ NoOverlay

\* The load step whose .catch does not rethrow: the state is written anyway.
ModelResult_noRethrow(ok) ==
  /\ pcInit = "model"
  /\ pcInit' = IF ok THEN "done" ELSE "rejected"
  /\ initError' = IF ok THEN initError ELSE "model"
  /\ initOk' = IF ok THEN Append(initOk, "load") ELSE initOk
  /\ setInitSetting([isTfReady |-> TRUE,
                     blazefaceModel |-> IF ok THEN "model" ELSE "null"])
  /\ UNCHANGED << appMounted, status, initCalls, startScopes >>
  /\ UNCHANGED loopVars
  /\ NoOverlay

\* blazeface.load() settles: resolved (ok) or rejected.
ModelResult(ok) ==
  /\ pcInit = "model"
  /\ IF ok
       THEN \* _blazeface = _blazefaceModel; setInitSetting({...})
            /\ pcInit' = "done"
            /\ initOk' = Append(initOk, "load")
            /\ setInitSetting([isTfReady |-> TRUE, blazefaceModel |-> "model"])
            /\ UNCHANGED initError
       ELSE \* .catch: throw Error
            /\ pcInit' = "rejected"
            /\ initError' = "model"
            /\ UNCHANGED << initOk, initSetting >>
  /\ UNCHANGED << appMounted, status, initCalls, startScopes >>
  /\ UNCHANGED loopVars
  /\ NoOverlay

\* The component is unmounted. It registers no cleanup: refs are detached,
\* pending timers, animation-frame callbacks and promises are left alone.
Unmount ==
  /\ appMounted
  /\ appMounted' = FALSE
  /\ UNCHANGED initVars
  /\ UNCHANGED loopVars
  /\ NoOverlay

\* ------------------------------------------- fn_onReadyTensorCamera / loop
Task(l, n, kind, tensor) ==
  [loop |-> l, cycle |-> n, kind |-> kind, tensor |-> tensor]

\* loop() that sets its timer without awaiting fn_estimateBlazeFace.
loopAwait_noAwait(l, n, tensor) ==
  { Task(l, n, "estimate", tensor), Task(l, n, "timer", tensor) }

\* What loop() leaves pending while it awaits fn_estimateBlazeFace, which
\* itself awaits estimateFaces: nothing is scheduled before the await ends.
loopAwait(l, n, tensor) == { Task(l, n, "estimate", tensor) }

\* loop() that requests the animation frame at once, without the timer.
afterResolve_noDelay(l, n, tensor) == { Task(l, n, "raf", tensor) }

\* setTimeout(() => { _tensorImage.dispose(); requestAnimationFrame(loop) }, 2000)
\* reached after fn_estimateBlazeFace resolved (.then logs the result).
afterResolve(l, n, tensor) == { Task(l, n, "timer", tensor) }

\* loop() without its .catch: the rejection ends loop() before setTimeout.
afterReject_noCatch(l, n, tensor) == {}

\* The same setTimeout, reached after fn_estimateBlazeFace rejected: the
\* .catch of loop() logs the error and execution continues.
afterReject(l, n, tensor) == { Task(l, n, "timer", tensor) }

\* requestAnimationFrame(loop) in the timer callback.
afterTimer(l, n, tensor) == { Task(l, n, "raf", tensor) }

\* A timer callback that does not dispose.
timerDispose_missing(count) == count

\* _tensorImage.dispose() in the timer callback.
timerDispose(count) == count + 1

\* tensorImage.dispose() at the end of fn_estimateBlazeFace.
estimateDispose(count) == count + 1

\* The value fn_estimateBlazeFace resolves with: _isEstimate is assigned
\* false on both branches.
isEstimate(predictions) == FALSE

RECURSIVE SumUpTo(_, _)
SumUpTo(f, k) == IF k = 0 THEN 0 ELSE f[k] + SumUpTo(f, k - 1)

\* images.next() calls made so far by all loops.
TotalCycles == SumUpTo(cycles, MaxLoops)

\* One run of loop() for loop l up to its first suspension; `rest` are the
\* continuations that stay pending.
loop(l, rest) ==
  LET n == cycles[l] + 1 IN
  /\ TotalCycles < MaxCycles
  /\ \E tensor \in TensorValues :   \* images.next().value
       /\ cycles' = [cycles EXCEPT ![l] = n]
       /\ IF tensor # "undefined" /\ initSetting.blazefaceModel # "null"
            THEN \* estimateFaces(tensorImage, false, true) is awaited
                 /\ tasks' = rest \cup loopAwait(l, n, tensor)
                 /\ outcome' = [outcome EXCEPT ![l] = "pending"]
                 /\ disposeCalls' = [disposeCalls EXCEPT ![l] = 0]
            ELSE IF tensor = "undefined"
              THEN \* tensorImage.dispose() on undefined throws a TypeError:
                   \* fn_estimateBlazeFace rejects, loop() logs it
                   /\ tasks' = rest \cup afterReject(l, n, tensor)
                   /\ outcome' = [outcome EXCEPT ![l] = "typeError"]
                   /\ disposeCalls' = [disposeCalls EXCEPT ![l] = 0]
              ELSE \* no model: dispose and resolve with false
                   /\ tasks' = rest \cup afterResolve(l, n, tensor)
                   /\ outcome' = [outcome EXCEPT ![l] = "skipped"]
                   /\ disposeCalls' = [disposeCalls EXCEPT ![l] = estimateDispose(0)]
  /\ UNCHANGED << consecFails, uncaught, endScopes >>
  /\ NoOverlay

\* TensorCamera calls onReady={fn_onReadyTensorCamera}: loop() is called.
OnReady ==
  /\ CameraRendered
  /\ started < MaxLoops
  /\ started' = started + 1
  /\ loop(started + 1, tasks)
  /\ UNCHANGED << appMounted >>
  /\ UNCHANGED initVars

\* estimateFaces resolves with predictions: the .then handler draws or
\* clears, fn_estimateBlazeFace disposes the tensor and resolves, loop()
\* logs the result and sets the delay timer.
EstimateResolve(t, predictions) ==
  /\ t \in tasks
  /\ t.kind = "estimate"
  /\ canvas' = onPredictions([canvas EXCEPT !.ops = <<>>], canvasRefCurrent, predictions)
  /\ lastRender' = [handled |-> TRUE, predictions |-> predictions,
                    mounted |-> canvasRefCurrent,
                    isEstimate |-> isEstimate(predictions)]
  /\ outcome' = [outcome EXCEPT ![t.loop] =
                   IF Len(predictions) > 0 THEN "drawn" ELSE "cleared"]
  /\ disposeCalls' = [disposeCalls EXCEPT ![t.loop] = estimateDispose(@)]
  /\ consecFails' = [consecFails EXCEPT ![t.loop] = 0]
  /\ tasks' = (tasks \ {t}) \cup afterResolve(t.loop, t.cycle, t.tensor)
  /\ UNCHANGED << appMounted, started, cycles, uncaught, endScopes >>
  /\ UNCHANGED initVars

\* estimateFaces rejects: the .catch handler calls tf.engine().endScope()
\* and throws, so fn_estimateBlazeFace rejects before its dispose; loop()
\* logs the error and sets the delay timer.
EstimateReject(t) ==
  /\ t \in tasks
  /\ t.kind = "estimate"
  /\ endScopes' = endScopes + 1
  /\ outcome' = [outcome EXCEPT ![t.loop] = "failed"]
  /\ consecFails' = [consecFails EXCEPT ![t.loop] = @ + 1]
  /\ tasks' = (tasks \ {t}) \cup afterReject(t.loop, t.cycle, t.tensor)
  /\ UNCHANGED << appMounted, started, cycles, disposeCalls, uncaught >>
  /\ NoOverlay
  /\ UNCHANGED initVars

\* The delay timer expires: _tensorImage.dispose(); requestAnimationFrame(loop).
TimerFire(t) ==
  /\ t \in tasks
  /\ t.kind = "timer"
  /\ IF t.tensor = "undefined"
       THEN \* TypeError in the callback: requestAnimationFrame is not reached
            /\ tasks' = tasks \ {t}
            /\ uncaught' = uncaught \cup { t.loop }
            /\ UNCHANGED disposeCalls
       ELSE /\ disposeCalls' = [disposeCalls EXCEPT ![t.loop] = timerDispose(@)]
            /\ tasks' = (tasks \ {t}) \cup afterTimer(t.loop, t.cycle, t.tensor)
            /\ UNCHANGED uncaught
  /\ UNCHANGED << appMounted, started, cycles, outcome, consecFails, endScopes >>
  /\ NoOverlay
  /\ UNCHANGED initVars

\* The animation-frame callback fires: loop() runs again.
RafFire(t) ==
  /\ t \in tasks
  /\ t.kind = "raf"
  /\ loop(t.loop, tasks \ {t})
  /\ UNCHANGED << appMounted, started >>
  /\ UNCHANGED initVars

\* ----------------------------------------------------------- specification
Next ==
  \/ EffectRun
  \/ \E s \in PermissionStatus : PermissionResult(s)
  \/ \E ok \in BOOLEAN : BackendResult(ok)
  \/ \E ok \in BOOLEAN : ModelResult(ok)
  \/ Unmount
  \/ OnReady
  \/ \E t \in tasks, predictions \in Predictions : EstimateResolve(t, predictions)
  \/ \E t \in tasks : EstimateReject(t)
  \/ \E t \in tasks : TimerFire(t)
  \/ \E t \in tasks : RafFire(t)

Spec == Init /\ [][Next]_vars

\* The runtime's event loop runs every expired timer and every requested
\* animation-frame callback.
TimerStep(l) == \E t \in tasks : t.loop = l /\ TimerFire(t)
RafStep(l) == \E t \in tasks : t.loop = l /\ RafFire(t)

FairSpec ==
  /\ Spec
  /\ \A l \in Loops : WF_vars(TimerStep(l)) /\ WF_vars(RafStep(l))

\* ------------------------------------------------------------------------
\* The first variant in src/unnamed/part_000: permission and tf.ready() are
\* two functions called one after the other, the state is the single flag
\* isTfReady (kept in initSetting.isTfReady), and blazeface.load() is called
\* by every cycle. No tensor is disposed and no engine scope is used.

\* JSX: isTfReady ? ( <TensorCamera/> <Canvas/> ) : <></>
V1_CameraRendered == appMounted /\ initSetting.isTfReady

\* useEffect: fn_requestPermisison() runs up to its await.
V1_EffectRun ==
  /\ pcInit = "effect"
  /\ appMounted
  /\ pcInit' = "permission"
  /\ initCalls' = Append(initCalls, "requestCameraPermissionsAsync")
  /\ UNCHANGED << appMounted, status, initOk, initSetting, initError,
                  startScopes >>
  /\ UNCHANGED loopVars
  /\ NoOverlay

\* The permission request resolves with status s: fn_requestPermisison logs
\* a status other than 'granted' and returns; the effect then awaits
\* fn_tfReady(), which awaits tf.ready().
V1_PermissionResult(s) ==
  /\ pcInit = "permission"
  /\ status' = s
  /\ pcInit' = "ready"
  /\ initCalls' = Append(initCalls, "ready")
  /\ initOk' = IF s = "granted"
                 THEN Append(initOk, "requestCameraPermissionsAsync")
                 ELSE initOk
  /\ UNCHANGED << appMounted, initSetting, initError, startScopes >>
  /\ UNCHANGED loopVars
  /\ NoOverlay

\* tf.ready() settles: .then sets isTfReady, .catch logs and returns.
V1_ReadyResult(ok) ==
  /\ pcInit = "ready"
  /\ pcInit' = "done"
  /\ IF ok
       THEN /\ setInitSetting([initSetting EXCEPT !.isTfReady = TRUE])
            /\ initOk' = Append(initOk, "ready")
            /\ UNCHANGED initError
       ELSE /\ initError' = "backend"
            /\ UNCHANGED << initOk, initSetting >>
  /\ UNCHANGED << appMounted, status, initCalls, startScopes >>
  /\ UNCHANGED loopVars
  /\ NoOverlay

\* One run of loop() of the first variant up to its first suspension.
V1_loop(l, rest) ==
  LET n == cycles[l] + 1 IN
  /\ TotalCycles < MaxCycles
  /\ \E tensor \in TensorValues :   \* images.next().value
       /\ cycles' = [cycles EXCEPT ![l] = n]
       /\ IF tensor # "undefined"
            THEN \* await blazeface.load()
                 /\ tasks' = rest \cup { Task(l, n, "load", tensor) }
                 /\ outcome' = [outcome EXCEPT ![l] = "pending"]
            ELSE \* return false; loop() logs it and sets the timer
                 /\ tasks' = rest \cup { Task(l, n, "timer", tensor) }
                 /\ outcome' = [outcome EXCEPT ![l] = "skipped"]
  /\ UNCHANGED << disposeCalls, consecFails, uncaught, endScopes >>
  /\ NoOverlay

\* TensorCamera calls onReady.
V1_OnReady ==
  /\ V1_CameraRendered
  /\ started < MaxLoops
  /\ started' = started + 1
  /\ V1_loop(started + 1, tasks)
  /\ UNCHANGED << appMounted >>
  /\ UNCHANGED initVars

\* blazeface.load() of a cycle resolves: estimateFaces is awaited.
V1_LoadResolve(t) ==
  /\ t \in tasks
  /\ t.kind = "load"
  /\ tasks' = (tasks \ {t}) \cup { Task(t.loop, t.cycle, "estimate", t.tensor) }
  /\ UNCHANGED << appMounted, started, cycles, disposeCalls, outcome,
                  consecFails, uncaught, endScopes >>
  /\ NoOverlay
  /\ UNCHANGED initVars

\* blazeface.load() or estimateFaces of a cycle rejects: fn_estimateBlazeFace
\* rejects, loop() logs the error and sets the timer.
V1_Reject(t) ==
  /\ t \in tasks
  /\ t.kind \in { "load", "estimate" }
  /\ outcome' = [outcome EXCEPT ![t.loop] = "failed"]
  /\ consecFails' = [consecFails EXCEPT ![t.loop] = @ + 1]
  /\ tasks' = (tasks \ {t}) \cup { Task(t.loop, t.cycle, "timer", t.tensor) }
  /\ UNCHANGED << appMounted, started, cycles, disposeCalls, uncaught,
                  endScopes >>
  /\ NoOverlay
  /\ UNCHANGED initVars

\* estimateFaces resolves: draw and return true, or clear and return false;
\* loop() logs the result and sets the timer.
V1_EstimateResolve(t, predictions) ==
  /\ t \in tasks
  /\ t.kind = "estimate"
  /\ canvas' = onPredictions([canvas EXCEPT !.ops = <<>>], V1_CameraRendered, predictions)
  /\ lastRender' = [handled |-> TRUE, predictions |-> predictions,
                    mounted |-> V1_CameraRendered,
                    isEstimate |-> Len(predictions) > 0]
  /\ outcome' = [outcome EXCEPT ![t.loop] =
                   IF Len(predictions) > 0 THEN "drawn" ELSE "cleared"]
  /\ consecFails' = [consecFails EXCEPT ![t.loop] = 0]
  /\ tasks' = (tasks \ {t}) \cup { Task(t.loop, t.cycle, "timer", t.tensor) }
  /\ UNCHANGED << appMounted, started, cycles, disposeCalls, uncaught,
                  endScopes >>
  /\ UNCHANGED initVars

\* The delay timer expires: requestAnimationFrame(loop).
V1_TimerFire(t) ==
  /\ t \in tasks
  /\ t.kind = "timer"
  /\ tasks' = (tasks \ {t}) \cup { Task(t.loop, t.cycle, "raf", t.tensor) }
  /\ UNCHANGED << appMounted, started, cycles, disposeCalls, outcome,
                  consecFails, uncaught, endScopes >>
  /\ NoOverlay
  /\ UNCHANGED initVars

\* The animation-frame callback fires: loop() runs again.
V1_RafFire(t) ==
  /\ t \in tasks
  /\ t.kind = "raf"
  /\ V1_loop(t.loop, tasks \ {t})
  /\ UNCHANGED << appMounted, started >>
  /\ UNCHANGED initVars

V1_Next ==
  \/ V1_EffectRun
  \/ \E s \in PermissionStatus : V1_PermissionResult(s)
  \/ \E ok \in BOOLEAN : V1_ReadyResult(ok)
  \/ Unmount
  \/ V1_OnReady
  \/ \E t \in tasks : V1_LoadResolve(t)
  \/ \E t \in tasks : V1_Reject(t)
  \/ \E t \in tasks, predictions \in Predictions : V1_EstimateResolve(t, predictions)
  \/ \E t \in tasks : V1_TimerFire(t)
  \/ \E t \in tasks : V1_RafFire(t)

SpecV1 == Init /\ [][V1_Next]_vars

\* ================================================================ claims
RECURSIVE IsPrefix(_, _)
IsPrefix(a, b) ==
  IF a = <<>> THEN TRUE
  ELSE Len(b) > 0 /\ Head(a) = Head(b) /\ IsPrefix(Tail(a), Tail(b))

InitOrder == << "requestCameraPermissionsAsync", "setBackend", "load" >>

TasksOf(l) == { t \in tasks : t.loop = l }

\* loop() of this task's cycle has resolved: its timer is set or has fired.
Resolved(t) == t.kind \in { "timer", "raf" }

\* C1: every tensor pulled by a cycle has been disposed exactly once when
\* that cycle's loop() has resolved, and is never disposed a second time.
C1_DisposedExactlyOnce ==
  \A t \in tasks :
    (Resolved(t) /\ t.tensor # "undefined") => disposeCalls[t.loop] = 1

\* C2: a loop has at most one cycle in flight: it never has two pending
\* continuations, and the pending one belongs to its latest cycle.
C2_SingleFlight ==
  \A l \in Loops :
    /\ Cardinality(TasksOf(l)) <= 1
    /\ \A t \in TasksOf(l) : t.cycle = cycles[l]

C2_Witness ==
  \E t \in tasks : t.kind = "estimate" /\ t.cycle >= 2

\* C3: when cycle N+1 of a loop pulls its tensor, cycle N's tensor has been
\* disposed and cycle N's estimate has settled (its draw or clear is done).
C3_NextAfterReleaseAndRender ==
  [][ \A l \in Loops :
        (cycles'[l] > cycles[l] /\ cycles[l] >= 1) =>
          /\ disposeCalls[l] >= 1
          /\ outcome[l] \in { "drawn", "cleared", "failed" }
          /\ \A t \in TasksOf(l) : t.kind # "estimate" ]_vars

C3_Witness ==
  \E l \in Loops :
    cycles[l] >= 2 /\ consecFails[l] >= 1 /\ outcome[l] = "pending"

\* C4: a permission status other than 'granted' rejects fn_initSetting with
\* the permission error; setBackend and load are not called, initSetting is
\* not written, the camera is not rendered and no cycle runs.
C4_PermissionDeniedStops ==
  status \notin { "none", "granted" } =>
    /\ pcInit = "rejected"
    /\ initError = "permission"
    /\ initCalls = << "requestCameraPermissionsAsync" >>
    /\ initSetting = InitialSetting
    /\ ~CameraRendered
    /\ started = 0
    /\ TotalCycles = 0
    /\ tasks = {}

C4_Witness == status = "denied" /\ pcInit = "rejected"

\* C5: initialization calls permission, backend, model load in that order,
\* each after the previous one succeeded; initSetting is written only after
\* all three succeeded, and a backend or load failure leaves it initial, so
\* nothing is rendered and no loop starts.
C5_InitOrderAndAllOrNothing ==
  /\ IsPrefix(initCalls, InitOrder)
  /\ IsPrefix(initOk, initCalls)
  /\ Len(initCalls) <= Len(initOk) + 1
  /\ initSetting # InitialSetting =>
       /\ initSetting = [isTfReady |-> TRUE, blazefaceModel |-> "model"]
       /\ initOk = InitOrder
  /\ initError \in { "backend", "model" } =>
       /\ initSetting = InitialSetting
       /\ ~CameraRendered
       /\ started = 0
       /\ TotalCycles = 0
  /\ started > 0 => initOk = InitOrder

C5_Witness ==
  initError = "model" /\ initOk = << "requestCameraPermissionsAsync", "setBackend" >>

\* C6: after a cycle whose estimateFaces rejected, the loop pulls another
\* tensor (unless the explored number of cycles is used up). Only the next
\* run of loop() changes outcome[l] from "failed".
C6_FailureDoesNotHaltLoop ==
  \A l \in Loops :
    (outcome[l] = "failed")
      ~> (outcome[l] \in { "pending", "typeError" } \/ TotalCycles >= MaxCycles)

C6_Witness ==
  \E l \in Loops :
    /\ cycles[l] = 2
    /\ consecFails[l] = 1
    /\ Task(l, 2, "estimate", "tensor") \in tasks

\* C7: once a loop has had as many consecutive failing cycles as the
\* failure threshold, it pulls no further tensor.
FailureLimit == MaxCycles - 1

C7_HaltsAtFailureThreshold ==
  [][ \A l \in Loops :
        consecFails[l] >= FailureLimit => cycles'[l] = cycles[l] ]_vars

\* C8: after the component is unmounted no overlay call is made, no cycle
\* starts and no timer or animation-frame continuation stays pending.
C8_QuietAfterStop ==
  [][ ~appMounted =>
        /\ canvas'.ops = <<>>
        /\ cycles' = cycles
        /\ \A t \in tasks' : ~Resolved(t) ]_vars

StrokeRects(ops) == SelectSeq(ops, LAMBDA o : o.op = "strokeRect")

\* C9: an empty result with the canvas mounted makes exactly one overlay
\* call, clearRect(0, 0, CAMERA_SIZE.width, CAMERA_SIZE.height), and leaves
\* the surface empty, as a clear does.
C9_EmptyResultClears ==
  (lastRender.handled /\ lastRender.mounted /\ lastRender.predictions = <<>>) =>
    /\ Len(canvas.ops) = 1
    /\ canvas.ops[1].op = "clearRect"
    /\ canvas.ops[1].args = << 0, 0, CAMERA_SIZE.width, CAMERA_SIZE.height >>
    /\ StrokeRects(canvas.ops) = <<>>
    /\ canvas.surface = {}

\* An empty result handled after an earlier draw had sized the surface.
C9_Witness ==
  /\ lastRender.handled /\ lastRender.mounted /\ lastRender.predictions = <<>>
  /\ canvas.height = CAMERA_SIZE.height
  /\ canvas.width = CAMERA_SIZE.width

\* C10: fn_drawRect on a mounted canvas issues one strokeRect per
\* prediction, in list order, with origin topLeft and extent
\* bottomRight - topLeft, and the surface is sized to CAMERA_SIZE before the
\* first strokeRect.
C10_OneStrokePerPrediction ==
  (lastRender.handled /\ lastRender.mounted /\ Len(lastRender.predictions) > 0) =>
    LET preds == lastRender.predictions
        strokes == StrokeRects(canvas.ops)
    IN  /\ Len(strokes) = Len(preds)
        /\ \A i \in 1..Len(preds) :
             strokes[i].args =
               << preds[i].topLeft[1], preds[i].topLeft[2],
                  preds[i].bottomRight[1] - preds[i].topLeft[1],
                  preds[i].bottomRight[2] - preds[i].topLeft[2] >>
        /\ canvas.ops[1] # strokes[1]
        /\ strokes[1].cw = CAMERA_SIZE.width
        /\ strokes[1].ch = CAMERA_SIZE.height

C10_Witness ==
  /\ lastRender.handled /\ lastRender.mounted
  /\ Len(lastRender.predictions) = 2
  /\ lastRender.predictions[1] # lastRender.predictions[2]

OverlayOps == { "strokeRect", "clearRect" }

\* C11: at every strokeRect or clearRect the surface is CAMERA_SIZE wide and
\* high, also at a clear made before anything was drawn.
C11_OverlaySizedAtEveryCall ==
  \A i \in 1..Len(canvas.ops) :
    canvas.ops[i].op \in OverlayOps =>
      /\ canvas.ops[i].cw = CAMERA_SIZE.width
      /\ canvas.ops[i].ch = CAMERA_SIZE.height

\* C12: whenever a cycle has called fn_estimateBlazeFace, initialization
\* has completed and initSetting holds isTfReady and the loaded model.
C12_EstimateOnlyWhenLoaded ==
  (\E l \in Loops : cycles[l] > 0) =>
    /\ pcInit = "done"
    /\ initSetting.isTfReady
    /\ initSetting.blazefaceModel # "null"

C12_Witness ==
  \E t \in tasks : t.kind = "estimate" /\ t.cycle = 1 /\ t.tensor = "tensor"

\* C13: fn_estimateBlazeFace resolves with true exactly when the model
\* reported at least one face.
C13_ResolvesWhetherFaceFound ==
  lastRender.handled =>
    (lastRender.isEstimate <=> Len(lastRender.predictions) > 0)

\* C14: an estimateFaces result handled while canvasRef.current is null makes
\* no call on the canvas and raises nothing: the tensor is disposed and the
\* delay timer of the cycle is set.
C14_UnmountedCanvasIsNoOp ==
  [][ \A t \in tasks :
        ( /\ t.kind = "estimate" /\ t \notin tasks'
          /\ lastRender'.handled /\ ~lastRender'.mounted ) =>
          /\ canvas' = [canvas EXCEPT !.ops = <<>>]
          /\ Task(t.loop, t.cycle, "timer", t.tensor) \in tasks'
          /\ disposeCalls'[t.loop] = disposeCalls[t.loop] + 1
          /\ outcome'[t.loop] \in { "drawn", "cleared" }
          /\ uncaught' = uncaught ]_vars

C14_Witness ==
  /\ lastRender.handled /\ ~lastRender.mounted
  /\ Len(lastRender.predictions) > 0
  /\ \E t \in tasks : t.kind = "timer"

\* C15: a loop starts a cycle only from the animation-frame callback of its
\* previous cycle, that callback is requested only by the expired delay
\* timer, and the timer is set only when the cycle is no longer awaiting
\* inference.
C15_TimerThenRefreshThenCycle ==
  [][ \A l \in Loops :
        /\ (cycles'[l] > cycles[l] /\ cycles[l] >= 1) =>
             \E t \in tasks \ tasks' :
               t.loop = l /\ t.cycle = cycles[l] /\ t.kind = "raf"
        /\ \A t \in tasks' \ tasks :
             (t.loop = l /\ t.kind = "raf") =>
               \E u \in tasks \ tasks' :
                 u.loop = l /\ u.cycle = t.cycle /\ u.kind = "timer"
        /\ \A t \in tasks' \ tasks :
             (t.loop = l /\ t.kind = "timer") =>
               \A u \in tasks' : u.loop = l => u.kind # "estimate" ]_vars

C15_Witness ==
  \E l \in Loops :
    cycles[l] = 2 /\ consecFails[l] = 0 /\ outcome[l] = "pending"

\* C16: loops started by different onReady calls are never live together:
\* all pending continuations belong to one loop.
C16_OneLiveLoop ==
  Cardinality({ t.loop : t \in tasks }) <= 1

\* C18: a cycle whose images.next() yielded undefined ends without an
\* uncaught error and its loop stays scheduled: a loop that has started
\* always has a continuation pending.
C18_UndefinedTensorIsHarmless ==
  \A l \in Loops :
    /\ l \notin uncaught
    /\ cycles[l] > 0 => TasksOf(l) # {}

\* C19: tf.engine().endScope() is never called more often than
\* tf.engine().startScope().
C19_ScopesBalanced == endScopes <= startScopes

\* The outline strokeRect leaves for prediction p.
RectOf(p) ==
  << p.topLeft[1], p.topLeft[2],
     p.bottomRight[1] - p.topLeft[1], p.bottomRight[2] - p.topLeft[2] >>

\* C20: after a result D was handled with the canvas mounted, the surface
\* holds exactly the rectangles of D.
C20_SurfaceShowsExactlyD ==
  (lastRender.handled /\ lastRender.mounted) =>
    canvas.surface =
      { RectOf(lastRender.predictions[i]) : i \in 1..Len(lastRender.predictions) }

\* C17: in the first variant, once the permission request resolved with a
\* status other than 'granted', isTfReady is never set, so the camera is not
\* rendered and no loop starts.
C17_V1DeniedStopsInit ==
  status \notin { "none", "granted" } =>
    /\ ~initSetting.isTfReady
    /\ ~V1_CameraRendered
    /\ started = 0
    /\ TotalCycles = 0

====
